---- MODULE Spec2Model ----
(***************************************************************************)
(* Model of the scheduler engine of src/agents/scheduler_agent/agent.py:   *)
(* SchedulerAgent.find_available_slots, prioritize_tasks, summarize_emails *)
(* and draft_reply, and get_scheduler with concurrent callers.             *)
(*                                                                         *)
(* A naive datetime is an integer: the number of minutes since             *)
(* Monday 2024-01-01T00:00.  Timestamp strings are records                 *)
(* [kind, t]: kind says what the string (or the missing value) is, t is    *)
(* the instant it denotes when it denotes one.                             *)
(***************************************************************************)
EXTENDS Integers, Sequences, FiniteSets, TLC

VARIABLES
    \* find_available_slots: arguments
    calendar_events, duration_minutes, start_date, end_date,
    working_hours_start, working_hours_end,
    \* find_available_slots: locals
    now1, now2, start, end, busy_slots, available_slots, current, pc,
    \* the caller of find_available_slots: which call is running, and the
    \* result of the first call
    call, first_slots,
    \* prioritize_tasks: arguments, locals, position
    tasks, criteria, now, prioritized, task_index, tpc,
    \* summarize_emails: arguments, the emails kept by the filter, locals,
    \* result, position
    emails, filter_type, filtered, categories, email_index, summary, epc,
    \* draft_reply: arguments, locals, result, position
    mail, tone, intent, sender_name, draft, dpc,
    \* the callers of get_scheduler: the module global _scheduler, the
    \* SchedulerAgent objects constructed so far with their attributes, and
    \* the frame of each caller
    scheduler, instances, frames

slotVars == <<calendar_events, duration_minutes, start_date, end_date,
              working_hours_start, working_hours_end, now1, now2, start, end,
              busy_slots, available_slots, current, pc, call, first_slots>>
taskVars == <<tasks, criteria, now, prioritized, task_index, tpc>>
emailVars == <<emails, filter_type, filtered, categories, email_index, summary, epc>>
draftVars == <<mail, tone, intent, sender_name, draft, dpc>>
sharedVars == <<scheduler, instances, frames>>
vars == <<slotVars, taskVars, emailVars, draftVars, sharedVars>>

-----------------------------------------------------------------------------
(* Bounds of the model *)

MaxEvents == 2
MaxTasks == 3

-----------------------------------------------------------------------------
(* datetime arithmetic *)

MinutesPerHour == 60
HoursPerDay == 24
DaysPerWeek == 7
MinutesPerDay == MinutesPerHour * HoursPerDay

\* datetime(2024, 1, 1 + day, h, m)
At(day, h, m) == day * MinutesPerDay + h * MinutesPerHour + m

\* datetime.hour
Hour(t) == (t % MinutesPerDay) \div MinutesPerHour

\* datetime.weekday(): 0 is Monday, 5 and 6 are the weekend
Weekday(t) == (t \div MinutesPerDay) % DaysPerWeek

\* datetime.replace(hour=h, minute=0)
ReplaceHourMinute(t, h) == (t \div MinutesPerDay) * MinutesPerDay + h * MinutesPerHour

\* timedelta(days=n)
Days(n) == n * MinutesPerDay

\* (a - b).days: timedelta normalises to a floored number of days
TimedeltaDays(a, b) == (a - b) \div MinutesPerDay

-----------------------------------------------------------------------------
(* timestamp strings *)

Absent == [kind |-> "absent", t |-> 0]     \* the key is missing
Null == [kind |-> "null", t |-> 0]         \* None
Empty == [kind |-> "empty", t |-> 0]       \* ""
Garbage == [kind |-> "garbage", t |-> 0]   \* a string that is no timestamp
Iso(t) == [kind |-> "iso", t |-> t]        \* "2024-01-02T09:00:00"
IsoZ(t) == [kind |-> "isoZ", t |-> t]      \* "2024-01-02T09:00:00Z"

\* truthiness of dict.get(key)
Truthy(f) == f.kind \in {"garbage", "iso", "isoZ"}

\* datetime.fromisoformat(f.replace("Z", "")) returns (does not raise ValueError)
Parseable(f) == f.kind \in {"iso", "isoZ"}

\* datetime.fromisoformat(f.replace("Z", ""))
FromIsoFormat(f) == f.t

\* datetime.isoformat()
IsoFormat(t) == Iso(t)

\* datetime.strftime("%A, %B %d"): the weekday and the calendar day
DayLabel(t) == <<Weekday(t), t \div MinutesPerDay>>

-----------------------------------------------------------------------------
(* find_available_slots: busy slots *)

\* an event that reaches busy_slots.append
Usable(event) ==
    /\ Truthy(event.start) /\ Truthy(event.end)
    /\ Parseable(event.start) /\ Parseable(event.end)

BusyOfEndIsStart(event) == <<FromIsoFormat(event.start), FromIsoFormat(event.start)>>
BusyOf(event) == <<FromIsoFormat(event.start), FromIsoFormat(event.end)>>

RECURSIVE ParseEventsLenient(_)
ParseEventsLenient(events) ==
    IF events = <<>> THEN <<>>
    ELSE LET event == Head(events) IN
         IF Usable(event) THEN <<BusyOf(event)>> \o ParseEventsLenient(Tail(events))
         ELSE IF Truthy(event.start) /\ Parseable(event.start)
              THEN <<BusyOfEndIsStart(event)>> \o ParseEventsLenient(Tail(events))
              ELSE ParseEventsLenient(Tail(events))

\* the loop over calendar_events
RECURSIVE ParseEvents(_)
ParseEvents(events) ==
    IF events = <<>> THEN <<>>
    ELSE LET event == Head(events) IN
         IF Usable(event) THEN <<BusyOf(event)>> \o ParseEvents(Tail(events))
         ELSE ParseEvents(Tail(events))

\* list.sort(key=lambda x: x[0]): a stable sort, ascending by start
RECURSIVE InsertByStart(_, _)
InsertByStart(sorted, b) ==
    IF sorted = <<>> THEN <<b>>
    ELSE IF b[1] < Head(sorted)[1] THEN <<b>> \o sorted
         ELSE <<Head(sorted)>> \o InsertByStart(Tail(sorted), b)

RECURSIVE SortByStart(_)
SortByStart(list) ==
    IF list = <<>> THEN <<>>
    ELSE InsertByStart(SortByStart(SubSeq(list, 1, Len(list) - 1)), list[Len(list)])

BusySlots(events) == SortByStart(ParseEvents(events))

-----------------------------------------------------------------------------
(* find_available_slots: the scan *)

MaxSlots == 10
DefaultWindowDays == 5

\* while current < end and len(available_slots) < 10
LoopCondOffByOne(cur, e, slots) == cur < e /\ Len(slots) <= MaxSlots
LoopCond(cur, e, slots) == cur < e /\ Len(slots) < MaxSlots

\* not (slot_end <= busy_start or current >= busy_end)
ConflictStartInside(cur, slot_end, b) == cur <= b[1] /\ b[1] < slot_end
Conflict(cur, slot_end, b) == ~(slot_end <= b[1] \/ cur >= b[2])

\* the index of the first busy slot the candidate conflicts with, 0 if none
FirstConflictOnlyHead(cur, slot_end, busy) ==
    IF Len(busy) > 0 /\ Conflict(cur, slot_end, busy[1]) THEN 1 ELSE 0
FirstConflict(cur, slot_end, busy) ==
    LET hits == {i \in 1..Len(busy) : Conflict(cur, slot_end, busy[i])} IN
    IF hits = {} THEN 0 ELSE CHOOSE i \in hits : \A j \in hits : i <= j

\* current = busy_end
AfterConflictSkipDuration(slot_end, b) == slot_end
AfterConflictToStart(slot_end, b) == b[1]
AfterConflict(slot_end, b) == b[2]

\* slot_end.hour <= working_hours_end
FitsWorkingHours(slot_end, whe) == Hour(slot_end) <= whe

\* the dict appended to available_slots
Slot(cur, slot_end, dur) ==
    [start |-> IsoFormat(cur), end |-> IsoFormat(slot_end),
     duration_minutes |-> dur, day |-> DayLabel(cur)]

\* available_slots.append
AppendSlotAtFront(slots, s) == <<s>> \o slots
AppendSlot(slots, s) == Append(slots, s)

\* which branch one iteration of the while loop takes
Branch(cur, busy, dur, whs, whe) ==
    IF Weekday(cur) >= 5 THEN "weekend"
    ELSE IF Hour(cur) >= whs /\ Hour(cur) >= whe THEN "after_hours"
    ELSE LET c == IF Hour(cur) < whs THEN ReplaceHourMinute(cur, whs) ELSE cur
             slot_end == c + dur
         IN IF FirstConflict(c, slot_end, busy) # 0 THEN "conflict"
            ELSE IF FitsWorkingHours(slot_end, whe) THEN "emit" ELSE "drop"

\* one iteration of the while loop: the new current and available_slots
Iterate(cur, slots, busy, dur, whs, whe) ==
    LET br == Branch(cur, busy, dur, whs, whe)
        c == IF Hour(cur) < whs THEN ReplaceHourMinute(cur, whs) ELSE cur
        slot_end == c + dur
        k == FirstConflict(c, slot_end, busy)
    IN CASE br \in {"weekend", "after_hours"} ->
              [current |-> ReplaceHourMinute(cur + Days(1), whs), slots |-> slots]
         [] br = "conflict" ->
              [current |-> AfterConflict(slot_end, busy[k]), slots |-> slots]
         [] br = "emit" ->
              [current |-> slot_end, slots |-> AppendSlot(slots, Slot(c, slot_end, dur))]
         [] br = "drop" ->
              [current |-> slot_end, slots |-> slots]

\* the while loop, run to its end
RECURSIVE Scan(_, _, _, _, _, _, _)
Scan(cur, slots, busy, dur, e, whs, whe) ==
    IF ~LoopCond(cur, e, slots) THEN slots
    ELSE LET r == Iterate(cur, slots, busy, dur, whs, whe)
         IN Scan(r.current, r.slots, busy, dur, e, whs, whe)

\* find_available_slots with start_date and end_date resolved to datetimes
FindAvailableSlots(events, dur, s, e, whs, whe) ==
    Scan(s, <<>>, BusySlots(events), dur, e, whs, whe)

-----------------------------------------------------------------------------
(* find_available_slots: inputs *)

\* day 1 is Tuesday 2024-01-02, day 4 is Friday 2024-01-05
\* events the calendar may hold
EventPool ==
    { [start |-> Iso(At(1, 9, 0)), end |-> Iso(At(1, 10, 0))],
      [start |-> IsoZ(At(1, 9, 0)), end |-> IsoZ(At(1, 16, 45))],
      [start |-> Iso(At(1, 10, 20)), end |-> Iso(At(1, 10, 10))],
      [start |-> Iso(At(1, 10, 15)), end |-> Iso(At(1, 10, 15))],
      [start |-> Iso(At(4, 9, 0)), end |-> Iso(At(5, 10, 0))],
      [start |-> Garbage, end |-> Iso(At(1, 11, 0))],
      [start |-> Iso(At(1, 9, 10)), end |-> Null],
      [start |-> Absent, end |-> Empty] }

EventLists == UNION {[1..n -> EventPool] : n \in 0..MaxEvents}

Durations == {30, 50, 600}
StartDates == {Absent, Iso(At(1, 0, 0)), Iso(At(4, 0, 0))}
EndDates == {Absent, Iso(At(2, 0, 0))}
WorkingHours == {<<9, 17>>, <<17, 9>>}

\* what datetime.now() may return at the first read, and how far the clock
\* may have moved at the second read
Clock == {At(1, 8, 59), At(1, 9, 0), At(1, 23, 59)}
ClockDrift == {0, 1}

-----------------------------------------------------------------------------
(* prioritize_tasks: placeholder state while the slot finder runs *)

TaskIdle ==
    /\ tasks = <<>> /\ criteria = "urgency" /\ now = 0
    /\ prioritized = <<>> /\ task_index = 0 /\ tpc = "idle"

\* summarize_emails: placeholder state while another function runs
NoCategories ==
    [action_required |-> <<>>, fyi |-> <<>>, meetings |-> <<>>, other |-> <<>>]

EmailIdle ==
    /\ emails = <<>> /\ filter_type = "all" /\ filtered = <<>>
    /\ categories = NoCategories /\ email_index = 0
    /\ summary = <<>> /\ epc = "idle"

\* a string field of an email whose key is missing
KeyAbsent == [kind |-> "absent", chars |-> <<>>]

\* draft_reply: placeholder state while another function runs
DraftIdle ==
    /\ mail = [from |-> KeyAbsent, fromEmail |-> KeyAbsent, subject |-> KeyAbsent]
    /\ tone = "professional" /\ intent = "acknowledge"
    /\ sender_name = <<>> /\ dpc = "idle"
    /\ draft = [to |-> KeyAbsent, subject |-> <<>>, body |-> <<>>, tone |-> "", intent |-> ""]

\* get_scheduler: placeholder state while nobody calls it
SharedIdle ==
    /\ scheduler = 0 /\ instances = <<>> /\ frames = <<>>

-----------------------------------------------------------------------------
(* find_available_slots: the state machine *)

Init ==
    /\ calendar_events \in EventLists
    /\ duration_minutes \in Durations
    /\ start_date \in StartDates
    /\ end_date \in EndDates
    /\ \E wh \in WorkingHours :
          working_hours_start = wh[1] /\ working_hours_end = wh[2]
    /\ now1 = 0 /\ now2 = 0 /\ start = 0 /\ end = 0
    /\ busy_slots = <<>> /\ available_slots = <<>> /\ current = 0
    /\ pc = "entry"
    /\ call = 1 /\ first_slots = <<>>
    /\ TaskIdle
    /\ EmailIdle
    /\ DraftIdle
    /\ SharedIdle

\* lines 40-69: resolve the window, parse and sort the busy slots
Begin ==
    /\ pc = "entry"
    /\ \E n1 \in Clock : \E d \in ClockDrift :
          LET n2 == n1 + d
              s0 == ReplaceHourMinute(n1, working_hours_start)
              s == IF Truthy(start_date) THEN FromIsoFormat(start_date)
                   ELSE IF Hour(n2) >= working_hours_start THEN s0 + Days(1)
                   ELSE s0
              e == IF Truthy(end_date) THEN FromIsoFormat(end_date)
                   ELSE s + Days(DefaultWindowDays)
          IN /\ now1' = (IF Truthy(start_date) THEN 0 ELSE n1)
             /\ now2' = (IF Truthy(start_date) THEN 0 ELSE n2)
             /\ start' = s
             /\ end' = e
             /\ current' = s
    /\ busy_slots' = BusySlots(calendar_events)
    /\ available_slots' = <<>>
    /\ pc' = "loop"
    /\ UNCHANGED <<calendar_events, duration_minutes, start_date, end_date,
                   working_hours_start, working_hours_end, call, first_slots>>
    /\ UNCHANGED <<taskVars, emailVars, draftVars, sharedVars>>

\* one iteration of the while loop (lines 71-105)
LoopStep ==
    /\ pc = "loop"
    /\ LoopCond(current, end, available_slots)
    /\ LET r == Iterate(current, available_slots, busy_slots, duration_minutes,
                        working_hours_start, working_hours_end)
       IN current' = r.current /\ available_slots' = r.slots
    /\ UNCHANGED <<calendar_events, duration_minutes, start_date, end_date,
                   working_hours_start, working_hours_end, now1, now2, start,
                   end, busy_slots, pc, call, first_slots>>
    /\ UNCHANGED <<taskVars, emailVars, draftVars, sharedVars>>

\* the branch the next iteration takes
NowBranch ==
    Branch(current, busy_slots, duration_minutes,
           working_hours_start, working_hours_end)

\* lines 73-76
SkipWeekend ==
    /\ NowBranch = "weekend"
    /\ LoopStep

\* lines 81-84
SkipAfterHours ==
    /\ NowBranch = "after_hours"
    /\ LoopStep

\* lines 79-80 and 86-95: the candidate conflicts with a busy slot
SkipBusy ==
    /\ NowBranch = "conflict"
    /\ LoopStep

\* lines 79-80 and 86-105: the slot is appended
EmitSlot ==
    /\ NowBranch = "emit"
    /\ LoopStep

\* lines 79-80 and 86-105: the slot ends after working hours
DropSlot ==
    /\ NowBranch = "drop"
    /\ LoopStep

\* line 107
Return ==
    /\ pc = "loop"
    /\ ~LoopCond(current, end, available_slots)
    /\ pc' = "done"
    /\ UNCHANGED <<calendar_events, duration_minutes, start_date, end_date,
                   working_hours_start, working_hours_end, now1, now2, start,
                   end, busy_slots, available_slots, current, call, first_slots>>
    /\ UNCHANGED <<taskVars, emailVars, draftVars, sharedVars>>

\* the slots of a result as calendar events
RECURSIVE SlotsAsEvents(_)
SlotsAsEvents(slots) ==
    IF slots = <<>> THEN <<>>
    ELSE <<[start |-> Head(slots).start, end |-> Head(slots).end]>>
         \o SlotsAsEvents(Tail(slots))

\* the caller books the slots found and asks again for the same window
CallAgain ==
    /\ pc = "done" /\ call = 1
    /\ first_slots' = available_slots
    /\ calendar_events' = calendar_events \o SlotsAsEvents(available_slots)
    /\ start_date' = Iso(start)
    /\ end_date' = Iso(end)
    /\ call' = 2
    /\ pc' = "entry"
    /\ busy_slots' = <<>> /\ available_slots' = <<>> /\ current' = 0
    /\ UNCHANGED <<duration_minutes, working_hours_start, working_hours_end,
                   now1, now2, start, end>>
    /\ UNCHANGED <<taskVars, emailVars, draftVars, sharedVars>>

Next ==
    \/ Begin
    \/ SkipWeekend
    \/ SkipAfterHours
    \/ SkipBusy
    \/ EmitSlot
    \/ DropSlot
    \/ Return
    \/ CallAgain

Spec == Init /\ [][Next]_vars

-----------------------------------------------------------------------------
(* Properties of find_available_slots *)

SlotStart(s) == s.start.t
SlotEnd(s) == s.end.t

RemoveAt(seq, i) == SubSeq(seq, 1, i - 1) \o SubSeq(seq, i + 1, Len(seq))

\* the result of find_available_slots on the running call's window when the
\* calendar holds `events`
ResultFor(events) ==
    FindAvailableSlots(events, duration_minutes, start, end,
                       working_hours_start, working_hours_end)

\* C1: every slot collected is disjoint from the busy interval of every
\* event whose start and end parse: the slot ends at or before the interval's
\* start, or starts at or after the interval's end.
C1_SlotsAvoidBusy ==
    \A i \in 1..Len(available_slots) : \A k \in 1..Len(calendar_events) :
        Usable(calendar_events[k]) =>
            \/ SlotEnd(available_slots[i]) <= BusyOf(calendar_events[k])[1]
            \/ SlotStart(available_slots[i]) >= BusyOf(calendar_events[k])[2]

\* a returned slot starts where a busy interval that began before it ends
C1_Witness ==
    /\ pc = "done"
    /\ \E i \in 1..Len(available_slots) : \E k \in 1..Len(calendar_events) :
          /\ Usable(calendar_events[k])
          /\ BusyOf(calendar_events[k])[1] < BusyOf(calendar_events[k])[2]
          /\ SlotStart(available_slots[i]) = BusyOf(calendar_events[k])[2]

\* C2: every slot lies on one weekday, between working_hours_start:00 and
\* working_hours_end:00 of that day (stated for working hours that form a
\* window, working_hours_start < working_hours_end).
C2_SlotsInsideWorkingHours ==
    working_hours_start < working_hours_end =>
    \A i \in 1..Len(available_slots) :
        LET s == available_slots[i]
            day == SlotStart(s) \div MinutesPerDay
        IN /\ Weekday(SlotStart(s)) < 5
           /\ SlotStart(s) >= At(day, working_hours_start, 0)
           /\ SlotEnd(s) <= At(day, working_hours_end, 0)

\* C3: never more than 10 slots, and once the tenth slot is collected the
\* next step of the scan is the return, with the result as it is.
C3_AtMostTenSlots ==
    /\ [](Len(available_slots) <= 10)
    /\ [][(pc = "loop" /\ Len(available_slots) = 10)
            => (pc' = "done" /\ available_slots' = available_slots)]_vars

\* the cap cut the scan short: ten slots returned with window left
C3_Witness == pc = "done" /\ Len(available_slots) = 10 /\ current < end

\* C4: slots are in chronological order and do not overlap each other.
C4_SlotsChronological ==
    \A i \in 1..Len(available_slots) : \A j \in 1..Len(available_slots) :
        i < j => SlotStart(available_slots[j]) >= SlotEnd(available_slots[i])

\* several slots returned, two consecutive ones with a gap between them
C4_Witness ==
    /\ pc = "done"
    /\ \E i \in 1..(Len(available_slots) - 1) :
          SlotStart(available_slots[i + 1]) > SlotEnd(available_slots[i])

\* start_date is a weekday D at midnight and the only busy interval is
\* [D at working_hours_start, T) with T + duration inside D's working hours
C5_Case ==
    /\ call = 1 /\ pc # "entry"
    /\ Truthy(start_date)
    /\ start % MinutesPerDay = 0 /\ Weekday(start) < 5
    /\ Len(busy_slots) = 1
    /\ busy_slots[1][1] = At(start \div MinutesPerDay, working_hours_start, 0)
    /\ busy_slots[1][2] >= busy_slots[1][1]
    /\ busy_slots[1][2] + duration_minutes
          <= At(start \div MinutesPerDay, working_hours_end, 0)

\* C5: in that case the first slot returned is [T, T + duration); one is
\* returned whenever the window reaches past T.
C5_FirstSlotAfterBusy ==
    (pc = "done" /\ C5_Case) =>
        /\ Len(available_slots) > 0 =>
              /\ SlotStart(available_slots[1]) = busy_slots[1][2]
              /\ SlotEnd(available_slots[1]) = busy_slots[1][2] + duration_minutes
        /\ end > busy_slots[1][2] => Len(available_slots) > 0

C5_Witness ==
    /\ pc = "done" /\ C5_Case
    /\ busy_slots[1][2] > busy_slots[1][1]
    /\ Len(available_slots) > 0
    /\ SlotStart(available_slots[1]) = busy_slots[1][2]

\* C6: in the second call, made with the first call's slots booked, no slot
\* overlaps a slot of the first call.
C6_RoundTripNoOverlap ==
    call = 2 =>
        \A i \in 1..Len(available_slots) : \A j \in 1..Len(first_slots) :
            \/ SlotEnd(available_slots[i]) <= SlotStart(first_slots[j])
            \/ SlotStart(available_slots[i]) >= SlotEnd(first_slots[j])

\* both calls returned slots
C6_Witness ==
    /\ call = 2 /\ pc = "done"
    /\ Len(first_slots) > 0 /\ Len(available_slots) > 0

\* C7: an event whose start or end is absent, null, empty or unparseable
\* changes nothing: the result is the result for the list without it.
C7_UnusableEventSkipped ==
    pc = "done" =>
        \A k \in 1..Len(calendar_events) :
            ~Usable(calendar_events[k]) =>
                available_slots = ResultFor(RemoveAt(calendar_events, k))

\* a call returned slots for a calendar holding an event with a parseable
\* start inside working hours and no usable end
C7_Witness ==
    /\ pc = "done" /\ Len(available_slots) > 0
    /\ \E k \in 1..Len(calendar_events) :
          /\ ~Usable(calendar_events[k])
          /\ Parseable(calendar_events[k].start)

\* C8: an event whose parsed start is later than its parsed end changes
\* nothing: the result is the result for the list without it.
C8_ReversedEventDropped ==
    pc = "done" =>
        \A k \in 1..Len(calendar_events) :
            (/\ Usable(calendar_events[k])
             /\ BusyOf(calendar_events[k])[1] > BusyOf(calendar_events[k])[2]) =>
                available_slots = ResultFor(RemoveAt(calendar_events, k))

-----------------------------------------------------------------------------
(* prioritize_tasks *)

\* task.get("status") == "completed"
IsCompletedCapitalised(task) == task.status = "Completed"
IsCompleted(task) == task.status = "completed"

\* lines 136-141
ImportanceScore(importance) ==
    IF importance = "high" THEN 30
    ELSE IF importance = "low" THEN 0 - 10
    ELSE 0

\* a reason is the sequence of the parts of its string, the number of an
\* f-string kept as a number
ImportanceReasons(importance) ==
    IF importance = "high" THEN << <<"High importance">> >> ELSE <<>>

\* the due date counts: the string is there and parses (lines 145-147)
HasDueDate(task) == Truthy(task.dueDate) /\ Parseable(task.dueDate)

\* days_until_due = (due_date - now).days
DaysUntilDue(task, n) == TimedeltaDays(FromIsoFormat(task.dueDate), n)

\* lines 150-161
DueScoreWeekExclusive(task, n) ==
    IF ~HasDueDate(task) THEN 0
    ELSE LET d == DaysUntilDue(task, n) IN
         IF d < 0 THEN 50
         ELSE IF d = 0 THEN 40
         ELSE IF d <= 2 THEN 30
         ELSE IF d < 7 THEN 15
         ELSE 0

DueScore(task, n) ==
    IF ~HasDueDate(task) THEN 0
    ELSE LET d == DaysUntilDue(task, n) IN
         IF d < 0 THEN 50
         ELSE IF d = 0 THEN 40
         ELSE IF d <= 2 THEN 30
         ELSE IF d <= 7 THEN 15
         ELSE 0

DueReasons(task, n) ==
    IF ~HasDueDate(task) THEN <<>>
    ELSE LET d == DaysUntilDue(task, n) IN
         IF d < 0 THEN << <<"OVERDUE by", 0 - d, "days">> >>
         ELSE IF d = 0 THEN << <<"Due TODAY">> >>
         ELSE IF d <= 2 THEN << <<"Due in", d, "days">> >>
         ELSE IF d <= 7 THEN << <<"Due this week">> >>
         ELSE <<>>

\* lines 166-172
CriteriaBoostUnlessUrgency(crit, importance) ==
    IF crit # "urgency" /\ importance = "high" THEN 20 ELSE 0

CriteriaBoost(crit, importance) ==
    IF crit = "importance" /\ importance = "high" THEN 20 ELSE 0

\* _get_task_recommendation
TaskRecommendationAbove(score) ==
    IF score > 50 THEN "immediate"
    ELSE IF score > 30 THEN "high priority"
    ELSE IF score > 15 THEN "this week"
    ELSE "can wait"

TaskRecommendation(score) ==
    IF score >= 50 THEN "immediate"
    ELSE IF score >= 30 THEN "high priority"
    ELSE IF score >= 15 THEN "this week"
    ELSE "can wait"

PriorityScore(task, crit, n) ==
    ImportanceScore(task.importance) + DueScore(task, n)
        + CriteriaBoost(crit, task.importance)

\* the dict appended to prioritized (lines 174-179)
PrioritizedTask(task, crit, n) ==
    [id |-> task.id, status |-> task.status, importance |-> task.importance,
     dueDate |-> task.dueDate,
     priority_score |-> PriorityScore(task, crit, n),
     priority_reasons |-> ImportanceReasons(task.importance) \o DueReasons(task, n),
     recommendation |-> TaskRecommendation(PriorityScore(task, crit, n))]

\* list.sort(key=lambda x: x["priority_score"], reverse=True): stable,
\* descending by score
RECURSIVE InsertByScoreTiesFirst(_, _)
InsertByScoreTiesFirst(sorted, p) ==
    IF sorted = <<>> THEN <<p>>
    ELSE IF p.priority_score >= Head(sorted).priority_score THEN <<p>> \o sorted
         ELSE <<Head(sorted)>> \o InsertByScoreTiesFirst(Tail(sorted), p)

RECURSIVE InsertByScore(_, _)
InsertByScore(sorted, p) ==
    IF sorted = <<>> THEN <<p>>
    ELSE IF p.priority_score > Head(sorted).priority_score THEN <<p>> \o sorted
         ELSE <<Head(sorted)>> \o InsertByScore(Tail(sorted), p)

RECURSIVE SortByScore(_)
SortByScore(list) ==
    IF list = <<>> THEN <<>>
    ELSE InsertByScore(SortByScore(SubSeq(list, 1, Len(list) - 1)), list[Len(list)])

\* tasks the To Do lists may hold (without their ids)
TaskPool ==
    { [status |-> "completed", importance |-> "high", dueDate |-> IsoZ(At(0, 13, 0))],
      [status |-> "completed", importance |-> "low", dueDate |-> Null],
      [status |-> "notStarted", importance |-> "high", dueDate |-> Null],
      [status |-> "notStarted", importance |-> "normal", dueDate |-> Iso(At(3, 12, 0))],
      [status |-> "notStarted", importance |-> "low", dueDate |-> Garbage],
      [status |-> "inProgress", importance |-> "normal", dueDate |-> IsoZ(At(1, 23, 45))],
      [status |-> "notStarted", importance |-> "high", dueDate |-> Iso(At(0, 13, 0))],
      [status |-> "notStarted", importance |-> "normal", dueDate |-> Iso(At(7, 0, 0))] }

\* the task list with its ids: the i-th task has id i
WithIds(list) ==
    [i \in DOMAIN list |->
        [id |-> i, status |-> list[i].status, importance |-> list[i].importance,
         dueDate |-> list[i].dueDate]]

TaskLists == {WithIds(l) : l \in UNION {[1..n -> TaskPool] : n \in 0..MaxTasks}}

Criteria == {"urgency", "importance", "balanced", "deadline"}

\* what datetime.now() may return
TaskClock == {At(1, 12, 0), At(1, 23, 30)}

\* find_available_slots: placeholder state while the prioritizer runs
SlotIdle ==
    /\ calendar_events = <<>> /\ duration_minutes = 30
    /\ start_date = Absent /\ end_date = Absent
    /\ working_hours_start = 9 /\ working_hours_end = 17
    /\ now1 = 0 /\ now2 = 0 /\ start = 0 /\ end = 0
    /\ busy_slots = <<>> /\ available_slots = <<>> /\ current = 0
    /\ pc = "idle" /\ call = 1 /\ first_slots = <<>>

InitTasks ==
    /\ tasks \in TaskLists
    /\ criteria \in Criteria
    /\ now = 0 /\ prioritized = <<>> /\ task_index = 0
    /\ tpc = "entry"
    /\ SlotIdle
    /\ EmailIdle
    /\ DraftIdle
    /\ SharedIdle

\* lines 124-125
BeginTasks ==
    /\ tpc = "entry"
    /\ now' \in TaskClock
    /\ prioritized' = <<>>
    /\ task_index' = 1
    /\ tpc' = "loop"
    /\ UNCHANGED <<tasks, criteria>>
    /\ UNCHANGED <<slotVars, emailVars, draftVars, sharedVars>>

\* lines 127-133: a completed task is skipped
SkipCompletedTask ==
    /\ tpc = "loop"
    /\ task_index <= Len(tasks)
    /\ IsCompleted(tasks[task_index])
    /\ task_index' = task_index + 1
    /\ UNCHANGED <<tasks, criteria, now, prioritized, tpc>>
    /\ UNCHANGED <<slotVars, emailVars, draftVars, sharedVars>>

\* lines 127-179: a task is scored and appended
ScoreTask ==
    /\ tpc = "loop"
    /\ task_index <= Len(tasks)
    /\ ~IsCompleted(tasks[task_index])
    /\ prioritized' = Append(prioritized,
                             PrioritizedTask(tasks[task_index], criteria, now))
    /\ task_index' = task_index + 1
    /\ UNCHANGED <<tasks, criteria, now, tpc>>
    /\ UNCHANGED <<slotVars, emailVars, draftVars, sharedVars>>

\* lines 181-184
SortAndReturn ==
    /\ tpc = "loop"
    /\ task_index > Len(tasks)
    /\ prioritized' = SortByScore(prioritized)
    /\ tpc' = "done"
    /\ UNCHANGED <<tasks, criteria, now, task_index>>
    /\ UNCHANGED <<slotVars, emailVars, draftVars, sharedVars>>

NextTasks ==
    \/ BeginTasks
    \/ SkipCompletedTask
    \/ ScoreTask
    \/ SortAndReturn

SpecTasks == InitTasks /\ [][NextTasks]_vars

-----------------------------------------------------------------------------
(* Properties of prioritize_tasks *)

\* the positions of the output that hold the task with id i
OutputsOf(i) == {j \in 1..Len(prioritized) : prioritized[j].id = i}

\* C9: in the output no task is completed, and every task of the input that
\* is not completed appears exactly once, whatever the criteria.
C9_CompletedExcluded ==
    tpc = "done" =>
        /\ \A j \in 1..Len(prioritized) : prioritized[j].status # "completed"
        /\ \A i \in 1..Len(tasks) :
              IF tasks[i].status = "completed"
              THEN OutputsOf(i) = {}
              ELSE /\ Cardinality(OutputsOf(i)) = 1
                   /\ \A j \in OutputsOf(i) :
                         /\ prioritized[j].status = tasks[i].status
                         /\ prioritized[j].importance = tasks[i].importance
                         /\ prioritized[j].dueDate = tasks[i].dueDate

\* the input held a completed task and one that is not, and the call returned
C9_Witness ==
    /\ tpc = "done"
    /\ \E i \in 1..Len(tasks) : tasks[i].status = "completed"
    /\ Len(prioritized) > 0

\* C10: the output is in descending order of priority_score, and tasks with
\* the same score are in the order they had in the input.
C10_SortedStable ==
    tpc = "done" =>
        \A i \in 1..Len(prioritized) : \A j \in 1..Len(prioritized) :
            i < j =>
                /\ prioritized[i].priority_score >= prioritized[j].priority_score
                /\ prioritized[i].priority_score = prioritized[j].priority_score
                      => prioritized[i].id < prioritized[j].id

\* the sort moved a task forward past a lower score, and two different tasks
\* tie in the output
C10_Witness ==
    /\ tpc = "done"
    /\ \E i \in 1..Len(prioritized) : \E j \in 1..Len(prioritized) :
          /\ i < j
          /\ prioritized[i].id > prioritized[j].id
          /\ prioritized[i].priority_score > prioritized[j].priority_score
    /\ \E i \in 1..Len(prioritized) : \E j \in 1..Len(prioritized) :
          /\ i < j
          /\ prioritized[i].priority_score = prioritized[j].priority_score
          /\ prioritized[i].importance # prioritized[j].importance

-----------------------------------------------------------------------------
(* prioritize_tasks: one task at a time, over a wide range of due dates *)

MaxScoredTasks == 1

\* due dates around the clock readings of TaskClock (both on day 1):
\* none, yesterday, today, tomorrow, and up to two weeks ahead
DueDates ==
    { Null, Empty, Garbage,
      Iso(At(0, 9, 0)), IsoZ(At(0, 23, 45)),
      Iso(At(1, 0, 0)), Iso(At(1, 9, 0)), IsoZ(At(1, 23, 45)),
      Iso(At(2, 0, 0)), Iso(At(2, 12, 0)), Iso(At(2, 23, 45)),
      Iso(At(3, 23, 45)), Iso(At(4, 12, 0)),
      Iso(At(8, 12, 0)), Iso(At(8, 23, 45)), Iso(At(9, 12, 0)),
      Iso(At(9, 23, 45)), Iso(At(15, 0, 0)) }

ScoredTaskPool ==
    { [status |-> "completed", importance |-> "high", dueDate |-> Iso(At(1, 9, 0))] }
    \cup { [status |-> "notStarted", importance |-> i, dueDate |-> d] :
              i \in {"high", "normal", "low"}, d \in DueDates }

ScoredTaskLists ==
    {WithIds(l) : l \in UNION {[1..n -> ScoredTaskPool] : n \in 0..MaxScoredTasks}}

InitScoring ==
    /\ tasks \in ScoredTaskLists
    /\ criteria \in Criteria
    /\ now = 0 /\ prioritized = <<>> /\ task_index = 0
    /\ tpc = "entry"
    /\ SlotIdle
    /\ EmailIdle
    /\ DraftIdle
    /\ SharedIdle

SpecScoring == InitScoring /\ [][NextTasks]_vars

\* the loop of prioritize_tasks, run to its end (lines 127-179)
RECURSIVE ScoredTasks(_, _, _)
ScoredTasks(list, crit, n) ==
    IF list = <<>> THEN <<>>
    ELSE IF IsCompleted(Head(list)) THEN ScoredTasks(Tail(list), crit, n)
         ELSE <<PrioritizedTask(Head(list), crit, n)>> \o ScoredTasks(Tail(list), crit, n)

\* prioritize_tasks as a function of its arguments and the clock reading
PrioritizeTasks(list, crit, n) == SortByScore(ScoredTasks(list, crit, n))

-----------------------------------------------------------------------------
(* Properties of the scores of prioritize_tasks *)

\* the calendar day of an instant
DayOf(t) == t \div MinutesPerDay

\* what the importance of an output task is said to contribute
SaidImportance(p) ==
    IF p.importance = "high" THEN 30 ELSE IF p.importance = "low" THEN 0 - 10 ELSE 0

SaidImportanceReasons(p) ==
    IF p.importance = "high" THEN << <<"High importance">> >> ELSE <<>>

\* what the criteria are said to add
SaidBoost(p) ==
    IF criteria = "importance" /\ p.importance = "high" THEN 20 ELSE 0

DueParses(p) == p.dueDate.kind \in {"iso", "isoZ"}

\* C11: under urgency criteria a task due on the calendar day before the
\* clock reading, at any time of that day, scores its importance
\* contribution + 50 and has the reason "OVERDUE by 1 days".
C11_DueYesterday ==
    (tpc = "done" /\ criteria = "urgency") =>
        \A j \in 1..Len(prioritized) :
            LET p == prioritized[j] IN
            (DueParses(p) /\ DayOf(p.dueDate.t) = DayOf(now) - 1) =>
                /\ p.priority_score = SaidImportance(p) + 50
                /\ \E r \in 1..Len(p.priority_reasons) :
                      p.priority_reasons[r] = <<"OVERDUE by", 1, "days">>

\* C12: under urgency criteria a high-importance task due on the calendar
\* day of the clock reading, at any time of that day, scores 70 with the
\* reasons "High importance", "Due TODAY" and the "immediate" tier.
C12_HighDueToday ==
    (tpc = "done" /\ criteria = "urgency") =>
        \A j \in 1..Len(prioritized) :
            LET p == prioritized[j] IN
            (/\ p.importance = "high"
             /\ DueParses(p) /\ DayOf(p.dueDate.t) = DayOf(now)) =>
                /\ p.priority_score = 70
                /\ p.priority_reasons = << <<"High importance">>, <<"Due TODAY">> >>
                /\ p.recommendation = "immediate"

\* the whole days from the clock reading to a due date in the future
WholeDaysAhead(p) == (p.dueDate.t - now) \div MinutesPerDay

\* C13: a due date 1 or 2 whole days ahead adds 30 with the reason
\* "Due in N days", one 3 to 7 whole days ahead adds 15 with the reason
\* "Due this week", and one more than 7 whole days ahead, absent or
\* unparseable adds nothing and no reason.
C13_FutureDueDate ==
    tpc = "done" =>
        \A j \in 1..Len(prioritized) :
            LET p == prioritized[j]
                base == SaidImportance(p) + SaidBoost(p)
                ahead == p.dueDate.t - now
            IN /\ (DueParses(p) /\ ahead >= Days(1) /\ ahead < Days(3)) =>
                     /\ p.priority_score = base + 30
                     /\ p.priority_reasons = SaidImportanceReasons(p)
                           \o << <<"Due in", WholeDaysAhead(p), "days">> >>
                     /\ WholeDaysAhead(p) \in {1, 2}
               /\ (DueParses(p) /\ ahead >= Days(3) /\ ahead < Days(8)) =>
                     /\ p.priority_score = base + 15
                     /\ p.priority_reasons = SaidImportanceReasons(p)
                           \o << <<"Due this week">> >>
               /\ (~DueParses(p) \/ ahead >= Days(8)) =>
                     /\ p.priority_score = base
                     /\ p.priority_reasons = SaidImportanceReasons(p)

\* a task due exactly 7 days after the clock reading was scored
C13_Witness ==
    /\ tpc = "done"
    /\ \E j \in 1..Len(prioritized) :
          /\ DueParses(prioritized[j])
          /\ prioritized[j].dueDate.t - now = Days(7)
          /\ prioritized[j].priority_reasons = << <<"Due this week">> >>

\* the entry of a list of prioritized tasks for the task with id i
EntryOf(list, i) == list[CHOOSE j \in 1..Len(list) : list[j].id = i]

\* C14: under "importance" a high-importance task scores 20 more than in
\* the same call under "urgency" and any other task scores the same; under
\* "balanced" or an unknown criteria value the output is the output under
\* "urgency".
C14_CriteriaAdjustment ==
    tpc = "done" =>
        LET urgent == PrioritizeTasks(tasks, "urgency", now) IN
        /\ criteria \notin {"urgency", "importance"} => prioritized = urgent
        /\ criteria = "importance" =>
              /\ Len(prioritized) = Len(urgent)
              /\ \A j \in 1..Len(prioritized) :
                    prioritized[j].priority_score =
                        EntryOf(urgent, prioritized[j].id).priority_score
                        + (IF prioritized[j].importance = "high" THEN 20 ELSE 0)

\* a call under "balanced" returned a high-importance task together with
\* another task
C14_Witness ==
    /\ tpc = "done" /\ criteria = "balanced"
    /\ \E j \in 1..Len(prioritized) : prioritized[j].importance = "high"
    /\ \E j \in 1..Len(prioritized) : prioritized[j].importance # "high"

\* C15: the recommendation follows from the final score alone: 50 and more
\* is "immediate", 30 to 49 "high priority", 15 to 29 "this week", less
\* than 15, negative scores included, "can wait".
C15_RecommendationTiers ==
    tpc = "done" =>
        \A j \in 1..Len(prioritized) :
            LET p == prioritized[j] IN
            /\ p.priority_score >= 50 => p.recommendation = "immediate"
            /\ (p.priority_score >= 30 /\ p.priority_score < 50)
                  => p.recommendation = "high priority"
            /\ (p.priority_score >= 15 /\ p.priority_score < 30)
                  => p.recommendation = "this week"
            /\ p.priority_score < 15 => p.recommendation = "can wait"

\* a task was returned with a score of exactly 50
C15_Witness ==
    /\ tpc = "done"
    /\ \E j \in 1..Len(prioritized) :
          /\ prioritized[j].priority_score = 50
          /\ prioritized[j].recommendation = "immediate"

-----------------------------------------------------------------------------
(* summarize_emails: text *)

\* a string is the sequence of its characters; a field that is missing or
\* None has no string
Text(chars) == [kind |-> "str", chars |-> chars]
NoText == [kind |-> "none", chars |-> <<>>]

\* email.get(key) or ""
OrEmpty(f) == IF f.kind = "str" THEN f.chars ELSE <<>>

UpperCase == <<"A", "B", "C", "D", "E", "F", "G", "H", "I", "J", "K", "L", "M", "N", "O", "P", "Q", "R", "S", "T", "U", "V", "W", "X", "Y", "Z">>
LowerCase == <<"a", "b", "c", "d", "e", "f", "g", "h", "i", "j", "k", "l", "m", "n", "o", "p", "q", "r", "s", "t", "u", "v", "w", "x", "y", "z">>

\* str.lower()
LowerChar(c) ==
    IF \E i \in 1..Len(UpperCase) : UpperCase[i] = c
    THEN LowerCase[CHOOSE i \in 1..Len(UpperCase) : UpperCase[i] = c]
    ELSE c

Lower(chars) == [i \in 1..Len(chars) |-> LowerChar(chars[i])]

\* kw in combined
Contains(kw, chars) ==
    \E i \in 1..(Len(chars) - Len(kw) + 1) : SubSeq(chars, i, i + Len(kw) - 1) = kw

\* any(kw in combined for kw in keywords)
ContainsAny(keywords, chars) ==
    \E k \in 1..Len(keywords) : Contains(keywords[k], chars)

\* line 226
action_keywords ==
    << <<"p", "l", "e", "a", "s", "e">>,
       <<"a", "c", "t", "i", "o", "n">>,
       <<"r", "e", "q", "u", "i", "r", "e", "d">>,
       <<"u", "r", "g", "e", "n", "t">>,
       <<"a", "s", "a", "p">>,
       <<"d", "e", "a", "d", "l", "i", "n", "e">>,
       <<"r", "e", "v", "i", "e", "w">>,
       <<"a", "p", "p", "r", "o", "v", "e">> >>

\* line 227
meeting_keywords ==
    << <<"m", "e", "e", "t", "i", "n", "g">>,
       <<"i", "n", "v", "i", "t", "e">>,
       <<"c", "a", "l", "e", "n", "d", "a", "r">>,
       <<"s", "c", "h", "e", "d", "u", "l", "e">>,
       <<"c", "a", "l", "l">>,
       <<"s", "y", "n", "c">> >>

\* subject + " " + preview, both lowercased (lines 230-232)
Combined(email) ==
    Lower(OrEmpty(email.subject)) \o <<" ">> \o Lower(OrEmpty(email.preview))

-----------------------------------------------------------------------------
(* summarize_emails: the function *)

\* not e.get("isRead")
IsUnread(email) == email.isRead # "true"

\* e.get("importance") == "high"
IsImportant(email) == email.importance = "high"

\* the list comprehensions of lines 213-216
RECURSIVE KeepUnread(_)
KeepUnread(list) ==
    IF list = <<>> THEN <<>>
    ELSE IF IsUnread(Head(list)) THEN <<Head(list)>> \o KeepUnread(Tail(list))
         ELSE KeepUnread(Tail(list))

RECURSIVE KeepRead(_)
KeepRead(list) ==
    IF list = <<>> THEN <<>>
    ELSE IF ~IsUnread(Head(list)) THEN <<Head(list)>> \o KeepRead(Tail(list))
         ELSE KeepRead(Tail(list))

RECURSIVE KeepImportant(_)
KeepImportant(list) ==
    IF list = <<>> THEN <<>>
    ELSE IF IsImportant(Head(list)) THEN <<Head(list)>> \o KeepImportant(Tail(list))
         ELSE KeepImportant(Tail(list))

\* lines 213-216
FilterEmailsInverted(list, ft) ==
    IF ft = "unread" THEN KeepRead(list)
    ELSE IF ft = "important" THEN KeepImportant(list)
    ELSE list

FilterEmails(list, ft) ==
    IF ft = "unread" THEN KeepUnread(list)
    ELSE IF ft = "important" THEN KeepImportant(list)
    ELSE list

\* the branch of lines 234-241 an email takes
ClassifyBranchActionFirst(email) ==
    IF ContainsAny(action_keywords, Combined(email)) THEN "action_keyword"
    ELSE IF ContainsAny(meeting_keywords, Combined(email)) THEN "meeting_keyword"
    ELSE IF IsImportant(email) THEN "important"
    ELSE "fyi"

ClassifyBranch(email) ==
    IF ContainsAny(meeting_keywords, Combined(email)) THEN "meeting_keyword"
    ELSE IF ContainsAny(action_keywords, Combined(email)) THEN "action_keyword"
    ELSE IF IsImportant(email) THEN "important"
    ELSE "fyi"

\* the category the branch appends to
CategoryOf(email) ==
    CASE ClassifyBranch(email) = "meeting_keyword" -> "meetings"
      [] ClassifyBranch(email) = "action_keyword" -> "action_required"
      [] ClassifyBranch(email) = "important" -> "action_required"
      [] ClassifyBranch(email) = "fyi" -> "fyi"

SampleSize == 5

\* list[:5]
LastFive(list) ==
    IF Len(list) <= SampleSize THEN list
    ELSE SubSeq(list, Len(list) - SampleSize + 1, Len(list))

FirstFive(list) ==
    IF Len(list) <= SampleSize THEN list ELSE SubSeq(list, 1, SampleSize)

\* sum(1 for e in emails if ...)
CountUnread(list) == Cardinality({i \in 1..Len(list) : IsUnread(list[i])})
CountImportant(list) == Cardinality({i \in 1..Len(list) : IsImportant(list[i])})

\* the clauses of the digest; " | ".join(parts) keeps them in this order
ClauseAttention(n) == <<n, "email(s) need your attention">>
ClauseMeetings(n) == <<n, "meeting-related email(s)">>
ClauseFyi(n) == <<n, "FYI email(s)">>
InboxClear == <<"Your inbox is clear!">>

\* _generate_email_summary
GenerateEmailSummaryMeetingsFirst(cats) ==
    LET parts ==
            (IF Len(cats.meetings) > 0
             THEN <<ClauseMeetings(Len(cats.meetings))>> ELSE <<>>)
            \o (IF Len(cats.action_required) > 0
                THEN <<ClauseAttention(Len(cats.action_required))>> ELSE <<>>)
            \o (IF Len(cats.fyi) > 0
                THEN <<ClauseFyi(Len(cats.fyi))>> ELSE <<>>)
    IN IF parts = <<>> THEN InboxClear ELSE parts

GenerateEmailSummary(cats) ==
    LET parts ==
            (IF Len(cats.action_required) > 0
             THEN <<ClauseAttention(Len(cats.action_required))>> ELSE <<>>)
            \o (IF Len(cats.meetings) > 0
                THEN <<ClauseMeetings(Len(cats.meetings))>> ELSE <<>>)
            \o (IF Len(cats.fyi) > 0
                THEN <<ClauseFyi(Len(cats.fyi))>> ELSE <<>>)
    IN IF parts = <<>> THEN InboxClear ELSE parts

\* the dict returned (lines 243-262)
EmailSummary(list, cats) ==
    [total_count |-> Len(list),
     unread_count |-> CountUnread(list),
     important_count |-> CountImportant(list),
     categories |->
        [action_required |-> [count |-> Len(cats.action_required),
                              emails |-> FirstFive(cats.action_required)],
         meetings |-> [count |-> Len(cats.meetings),
                       emails |-> FirstFive(cats.meetings)],
         fyi |-> [count |-> Len(cats.fyi),
                  emails |-> FirstFive(cats.fyi)]],
     summary |-> GenerateEmailSummary(cats)]

-----------------------------------------------------------------------------
(* summarize_emails: inputs *)

MaxEmails == 2
MaxInbox == 6

MeetingPleaseReview ==
    [subject |-> Text(<<"T", "e", "a", "m", " ", "M", "e", "e", "t", "i", "n", "g", ":", " ", "p", "l", "e", "a", "s", "e", " ", "r", "e", "v", "i", "e", "w">>),
     preview |-> NoText,
     isRead |-> "false", importance |-> "normal"]

UrgentApprove ==
    [subject |-> Text(<<"U", "R", "G", "E", "N", "T">>),
     preview |-> Text(<<"A", "p", "p", "r", "o", "v", "e", " ", "b", "u", "d", "g", "e", "t">>),
     isRead |-> "true", importance |-> "low"]

ImportantNews ==
    [subject |-> Text(<<"H", "e", "l", "l", "o">>),
     preview |-> Text(<<"n", "e", "w", "s">>),
     isRead |-> "true", importance |-> "high"]

PlainNews ==
    [subject |-> Text(<<"H", "e", "l", "l", "o">>),
     preview |-> Text(<<"n", "e", "w", "s">>),
     isRead |-> "true", importance |-> "normal"]

BlankEmail ==
    [subject |-> NoText,
     preview |-> NoText,
     isRead |-> "none", importance |-> "none"]

RecallNotice ==
    [subject |-> Text(<<"R", "e", "c", "a", "l", "l", " ", "n", "o", "t", "i", "c", "e">>),
     preview |-> Text(<<>>),
     isRead |-> "false", importance |-> "high"]

SplitKeyword ==
    [subject |-> Text(<<"s", "c", "h", "e">>),
     preview |-> Text(<<"d", "u", "l", "e">>),
     isRead |-> "false", importance |-> "low"]

\* emails of every kind the classifier tells apart
EmailPool ==
    {MeetingPleaseReview, UrgentApprove, ImportantNews, PlainNews, BlankEmail,
     RecallNotice, SplitKeyword}

\* emails a longer inbox is filled with
InboxPool == {MeetingPleaseReview, ImportantNews, PlainNews}

\* the email list with its ids: the i-th email has id i
WithEmailIds(list) ==
    [i \in DOMAIN list |->
        [id |-> i, subject |-> list[i].subject, preview |-> list[i].preview,
         isRead |-> list[i].isRead, importance |-> list[i].importance]]

EmailLists ==
    {WithEmailIds(l) :
        l \in UNION ({[1..n -> EmailPool] : n \in 0..MaxEmails}
                     \cup {[1..n -> InboxPool] : n \in (MaxEmails + 1)..MaxInbox})}

FilterTypes == {"all", "unread", "important", "starred"}

-----------------------------------------------------------------------------
(* summarize_emails: the state machine *)

InitEmails ==
    /\ emails \in EmailLists
    /\ filter_type \in FilterTypes
    /\ filtered = <<>> /\ categories = NoCategories /\ email_index = 0
    /\ summary = <<>>
    /\ epc = "entry"
    /\ SlotIdle
    /\ TaskIdle
    /\ DraftIdle
    /\ SharedIdle

\* lines 212-227
BeginEmails ==
    /\ epc = "entry"
    /\ filtered' = FilterEmails(emails, filter_type)
    /\ categories' = NoCategories
    /\ email_index' = 1
    /\ epc' = "loop"
    /\ UNCHANGED <<emails, filter_type, summary>>
    /\ UNCHANGED <<slotVars, taskVars, draftVars, sharedVars>>

\* one iteration of the loop of lines 229-241
ClassifyStep ==
    /\ epc = "loop"
    /\ email_index <= Len(filtered)
    /\ LET email == filtered[email_index]
           cat == CategoryOf(email)
       IN categories' = [categories EXCEPT ![cat] = Append(@, email)]
    /\ email_index' = email_index + 1
    /\ UNCHANGED <<emails, filter_type, filtered, summary, epc>>
    /\ UNCHANGED <<slotVars, taskVars, draftVars, sharedVars>>

\* the branch the next iteration takes
NowClassify ==
    IF epc = "loop" /\ email_index <= Len(filtered)
    THEN ClassifyBranch(filtered[email_index]) ELSE "none"

\* lines 234-235
ClassifyMeeting ==
    /\ NowClassify = "meeting_keyword"
    /\ ClassifyStep

\* lines 236-237
ClassifyActionKeyword ==
    /\ NowClassify = "action_keyword"
    /\ ClassifyStep

\* lines 238-239
ClassifyImportant ==
    /\ NowClassify = "important"
    /\ ClassifyStep

\* lines 240-241
ClassifyFyi ==
    /\ NowClassify = "fyi"
    /\ ClassifyStep

\* lines 243-262
ReturnSummary ==
    /\ epc = "loop"
    /\ email_index > Len(filtered)
    /\ summary' = EmailSummary(filtered, categories)
    /\ epc' = "done"
    /\ UNCHANGED <<emails, filter_type, filtered, categories, email_index>>
    /\ UNCHANGED <<slotVars, taskVars, draftVars, sharedVars>>

NextEmails ==
    \/ BeginEmails
    \/ ClassifyMeeting
    \/ ClassifyActionKeyword
    \/ ClassifyImportant
    \/ ClassifyFyi
    \/ ReturnSummary

SpecEmails == InitEmails /\ [][NextEmails]_vars

-----------------------------------------------------------------------------
(* Properties of summarize_emails *)

\* the ids of the emails a list holds
IdsIn(list) == {list[j].id : j \in 1..Len(list)}

\* the lowercase subject + " " + preview of an email has one of the words
HasMeetingWord(email) == ContainsAny(meeting_keywords, Combined(email))
HasActionWord(email) == ContainsAny(action_keywords, Combined(email))

\* C16: each email is put in the bucket of the first rule that matches:
\* a meeting keyword gives meetings, whatever else holds; else an action
\* keyword gives action_required; else high importance gives
\* action_required; else fyi.
C16_FirstMatchingRule ==
    epc = "done" =>
        \A i \in 1..Len(filtered) :
            LET e == filtered[i]
                bucket == IF HasMeetingWord(e) THEN "meetings"
                          ELSE IF HasActionWord(e) THEN "action_required"
                          ELSE IF e.importance = "high" THEN "action_required"
                          ELSE "fyi"
            IN \A b \in {"action_required", "meetings", "fyi", "other"} :
                  (e.id \in IdsIn(categories[b])) <=> (b = bucket)

\* an email with a meeting keyword and an action keyword is in meetings
C16_Witness ==
    /\ epc = "done"
    /\ \E j \in 1..Len(categories.meetings) :
          /\ HasMeetingWord(categories.meetings[j])
          /\ HasActionWord(categories.meetings[j])

\* the emails of the input the filter is said to keep
SaidKept ==
    {i \in 1..Len(emails) :
        CASE filter_type = "unread" -> emails[i].isRead # "true"
          [] filter_type = "important" -> emails[i].importance = "high"
          [] OTHER -> TRUE}

\* C17: the filter keeps the unread emails under "unread", the
\* high-importance ones under "important" and all of them otherwise, in
\* their order; the three counts are taken over the emails kept.
C17_FilterThenCount ==
    epc = "done" =>
        /\ IdsIn(filtered) = SaidKept
        /\ \A i \in 1..Len(filtered) : \A j \in 1..Len(filtered) :
              i < j => filtered[i].id < filtered[j].id
        /\ \A i \in 1..Len(filtered) : filtered[i] = emails[filtered[i].id]
        /\ summary.total_count = Cardinality(SaidKept)
        /\ summary.unread_count =
              Cardinality({i \in SaidKept : emails[i].isRead # "true"})
        /\ summary.important_count =
              Cardinality({i \in SaidKept : emails[i].importance = "high"})
        /\ filter_type = "unread" => summary.unread_count = summary.total_count
        /\ filter_type = "important" => summary.important_count = summary.total_count

\* a filter dropped some emails and kept others
C17_Witness ==
    /\ epc = "done"
    /\ filter_type \in {"unread", "important"}
    /\ summary.total_count > 0
    /\ summary.total_count < Len(emails)

\* the category of each position of the filtered list
CategoryAt == [i \in 1..Len(filtered) |-> CategoryOf(filtered[i])]

\* the k-th smallest element of a set of numbers
Kth(set, k) == CHOOSE i \in set : Cardinality({m \in set : m <= i}) = k

Reported == {"action_required", "meetings", "fyi"}

\* C18: the count of a bucket is the number of filtered emails of its
\* category, every filtered email is in exactly one bucket, the counts sum
\* to total_count, and the sample is the first min(5, count) emails of the
\* category in input order.
C18_CountsAndSamples ==
    epc = "done" =>
        LET cat == CategoryAt IN
        /\ \A b \in Reported :
              LET bucket == summary.categories[b]
                  members == {i \in 1..Len(filtered) : cat[i] = b}
              IN /\ bucket.count = Cardinality(members)
                 /\ Len(bucket.emails) =
                       (IF bucket.count < 5 THEN bucket.count ELSE 5)
                 /\ \A k \in 1..Len(bucket.emails) :
                       bucket.emails[k] = filtered[Kth(members, k)]
        /\ \A i \in 1..Len(filtered) :
              Cardinality({b \in Reported : filtered[i].id \in IdsIn(categories[b])}) = 1
        /\ summary.categories.action_required.count
              + summary.categories.meetings.count
              + summary.categories.fyi.count = summary.total_count

\* a bucket holds more emails than its sample shows
C18_Witness ==
    /\ epc = "done"
    /\ \E b \in Reported :
          /\ summary.categories[b].count > 5
          /\ Len(summary.categories[b].emails) = 5

\* the digest the counts of the three buckets are said to give
SaidDigest(a, m, f) ==
    IF a = 0 /\ m = 0 /\ f = 0 THEN <<"Your inbox is clear!">>
    ELSE (IF a > 0 THEN << <<a, "email(s) need your attention">> >> ELSE <<>>)
         \o (IF m > 0 THEN << <<m, "meeting-related email(s)">> >> ELSE <<>>)
         \o (IF f > 0 THEN << <<f, "FYI email(s)">> >> ELSE <<>>)

\* C19: with no email left after the filter all counts are zero and the
\* digest is the "inbox clear" message; the digest is that message only
\* when every bucket is empty, and otherwise one clause per non-empty
\* bucket, in the order action_required, meetings, fyi, with its count.
C19_Digest ==
    epc = "done" =>
        LET a == summary.categories.action_required.count
            m == summary.categories.meetings.count
            f == summary.categories.fyi.count
        IN /\ filtered = <<>> =>
                 /\ summary.total_count = 0 /\ summary.unread_count = 0
                 /\ summary.important_count = 0
                 /\ a = 0 /\ m = 0 /\ f = 0
                 /\ summary.summary = <<"Your inbox is clear!">>
           /\ (summary.summary = <<"Your inbox is clear!">>) <=>
                 (\A b \in DOMAIN categories : categories[b] = <<>>)
           /\ summary.summary = SaidDigest(a, m, f)

\* every email of a non-empty list was filtered out
C19_Witness ==
    /\ epc = "done"
    /\ Len(emails) > 0 /\ filtered = <<>>
    /\ summary.summary = <<"Your inbox is clear!">>

\* C20: the result has the four buckets action_required, meetings, fyi and
\* other, each with a count and a sample list.
C20_FourBuckets ==
    epc = "done" =>
        /\ DOMAIN summary.categories = {"action_required", "meetings", "fyi", "other"}
        /\ \A b \in DOMAIN summary.categories :
              DOMAIN summary.categories[b] = {"count", "emails"}

-----------------------------------------------------------------------------
(* draft_reply: the function *)

\* the characters str.split() separates words at
Whitespace == {" ", "\t", "\n"}

\* str.split(): the words between runs of whitespace
RECURSIVE SplitFrom(_, _)
SplitFrom(chars, word) ==
    IF chars = <<>> THEN (IF word = <<>> THEN <<>> ELSE <<word>>)
    ELSE IF Head(chars) \in Whitespace
         THEN (IF word = <<>> THEN <<>> ELSE <<word>>) \o SplitFrom(Tail(chars), <<>>)
         ELSE SplitFrom(Tail(chars), Append(word, Head(chars)))

\* line 302 raises IndexError: email.get("from") is truthy and the list of
\* its words is empty
SenderNameRaises(email) ==
    /\ email.from.kind = "str" /\ email.from.chars # <<>>
    /\ SplitFrom(email.from.chars, <<>>) = <<>>

\* line 302 when it does not raise
SenderName(email) ==
    IF email.from.kind = "str" /\ email.from.chars # <<>>
    THEN SplitFrom(email.from.chars, <<>>)[1]
    ELSE <<"t", "h", "e", "r", "e">>

\* f"{email.get("subject", "your email")}" (line 303): the default for a
\* missing key, and None formatted as "None"
SubjectText(email) ==
    IF email.subject.kind = "str" THEN email.subject.chars
    ELSE IF email.subject.kind = "absent"
         THEN <<"y", "o", "u", "r", " ", "e", "m", "a", "i", "l">>
         ELSE <<"N", "o", "n", "e">>

\* dict.get(key, dict[fallback]) over the keys of a template dict
ToneKeyDefaultBrief(t) ==
    IF t \in {"professional", "friendly", "brief"} THEN t ELSE "brief"
ToneKey(t) ==
    IF t \in {"professional", "friendly", "brief"} THEN t ELSE "professional"

IntentKey(i) ==
    IF i \in {"acknowledge", "decline", "accept", "follow_up"} THEN i
    ELSE "acknowledge"

\* the greetings dict (lines 306-310): the text before and after the name
GreetingOf(key, name) ==
    CASE key = "professional" -> <<"D", "e", "a", "r", " ">> \o name \o <<",">>
      [] key = "friendly" -> <<"H", "i", " ">> \o name \o <<"!">>
      [] key = "brief" -> <<"H", "i", " ">> \o name \o <<",">>

\* the bodies dict (lines 314-319): the template chosen and the subject
\* substituted into it
BodyOf(key, subject_text) ==
    CASE key = "acknowledge" -> [template |-> "acknowledge", regarding |-> subject_text]
      [] key = "decline" -> [template |-> "decline", regarding |-> subject_text]
      [] key = "accept" -> [template |-> "accept", regarding |-> subject_text]
      [] key = "follow_up" -> [template |-> "follow_up", regarding |-> subject_text]

\* the closings dict (lines 323-327)
ClosingOf(key) ==
    CASE key = "professional" -> "Best regards,"
      [] key = "friendly" -> "Cheers,"
      [] key = "brief" -> "Thanks,"

\* the returned dict (lines 330-336); the body is greeting, body and closing
\* joined by blank lines
DraftReply(email, name, t, i) ==
    [to |-> (IF email.fromEmail.kind = "absent" THEN Text(<<>>) ELSE email.fromEmail),
     subject |-> <<"R", "e", ":", " ">> \o SubjectText(email),
     body |-> <<GreetingOf(ToneKey(t), name),
                BodyOf(IntentKey(i), SubjectText(email)),
                ClosingOf(ToneKey(t))>>,
     tone |-> t,
     intent |-> i]

-----------------------------------------------------------------------------
(* draft_reply: inputs *)

\* the emails a reply is drafted to: every kind of "from" display name,
\* fromEmail and subject
MailPool ==
    {[from |-> f, fromEmail |-> a, subject |-> sub] :
        f \in { Text(<<"A", "l", "i", "c", "e">> \o <<" ", "S", "m", "i", "t", "h">>),
                Text(<<" ", " ">> \o <<"A", "l", "i", "c", "e">>),
                Text(<<"A", "l", "i", "c", "e">>),
                Text(<<>>),
                Text(<<" ">>),
                Text(<<" ", "\t", " ">>),
                NoText,
                KeyAbsent },
        a \in {Text(<<"a", "@", "x", ".", "i", "o">>), KeyAbsent},
        sub \in {Text(<<"B", "u", "d", "g", "e", "t">>), KeyAbsent, NoText}}

-----------------------------------------------------------------------------
(* draft_reply: the state machine *)

InitDraft ==
    /\ mail \in MailPool
    /\ tone \in {"professional", "friendly", "brief", "formal", ""}
    /\ intent \in {"acknowledge", "decline", "accept", "follow_up", "remind"}
    /\ sender_name = <<>>
    /\ draft = [to |-> KeyAbsent, subject |-> <<>>, body |-> <<>>, tone |-> "", intent |-> ""]
    /\ dpc = "entry"
    /\ SlotIdle
    /\ TaskIdle
    /\ EmailIdle
    /\ SharedIdle

\* line 302: the sender's first name is found
ExtractSenderName ==
    /\ dpc = "entry"
    /\ ~SenderNameRaises(mail)
    /\ sender_name' = SenderName(mail)
    /\ dpc' = "named"
    /\ UNCHANGED <<mail, tone, intent, draft>>
    /\ UNCHANGED <<slotVars, taskVars, emailVars, sharedVars>>

\* line 302: [][0] raises IndexError and the call ends without a result
RaiseIndexError ==
    /\ dpc = "entry"
    /\ SenderNameRaises(mail)
    /\ dpc' = "raised"
    /\ UNCHANGED <<mail, tone, intent, sender_name, draft>>
    /\ UNCHANGED <<slotVars, taskVars, emailVars, sharedVars>>

\* lines 303-336
ComposeReply ==
    /\ dpc = "named"
    /\ draft' = DraftReply(mail, sender_name, tone, intent)
    /\ dpc' = "done"
    /\ UNCHANGED <<mail, tone, intent, sender_name>>
    /\ UNCHANGED <<slotVars, taskVars, emailVars, sharedVars>>

NextDraft ==
    \/ ExtractSenderName
    \/ RaiseIndexError
    \/ ComposeReply

SpecDraft == InitDraft /\ [][NextDraft]_vars

-----------------------------------------------------------------------------
(* Properties of draft_reply *)

\* the text has a character that is not whitespace
HasWord(chars) == \E k \in 1..Len(chars) : chars[k] \notin Whitespace

\* the first maximal run of characters that are not whitespace
FirstWord(chars) ==
    LET a == CHOOSE k \in 1..Len(chars) :
                 /\ chars[k] \notin Whitespace
                 /\ \A j \in 1..(k - 1) : chars[j] \in Whitespace
        b == CHOOSE k \in a..Len(chars) :
                 /\ \A j \in a..k : chars[j] \notin Whitespace
                 /\ (k = Len(chars) \/ chars[k + 1] \in Whitespace)
    IN SubSeq(chars, a, b)

C22_GreetsFirstWord ==
    /\ dpc # "raised"
    /\ dpc \in {"named", "done"} =>
          sender_name = (IF mail.from.kind = "str" /\ HasWord(mail.from.chars)
                         THEN FirstWord(mail.from.chars)
                         ELSE <<"t", "h", "e", "r", "e">>)

-----------------------------------------------------------------------------
(* get_scheduler and concurrent calls on the object it returns *)

MaxCallers == 2

\* the frame that holds the locals of the call of caller c: every call of a
\* Python function has a frame of its own
FrameOfFirstCaller(c) == 1
FrameOf(c) == c

\* the calls a caller may make
CallPool ==
    { [fn |-> "prioritize_tasks",
       args |-> [tasks |-> WithIds(<< [status |-> "notStarted", importance |-> "low", dueDate |-> Garbage],
                                      [status |-> "notStarted", importance |-> "high", dueDate |-> Iso(At(0, 13, 0))] >>),
                 criteria |-> "importance"]],
      [fn |-> "prioritize_tasks",
       args |-> [tasks |-> WithIds(<< [status |-> "inProgress", importance |-> "normal", dueDate |-> IsoZ(At(1, 23, 45))] >>),
                 criteria |-> "urgency"]],
      [fn |-> "summarize_emails",
       args |-> [emails |-> WithEmailIds(<<PlainNews, MeetingPleaseReview>>), filter_type |-> "all"]],
      [fn |-> "draft_reply",
       args |-> [email |-> [from |-> Text(<<"A", "l", "i", "c", "e">>), fromEmail |-> Text(<<"a", "@", "x", ".", "i", "o">>), subject |-> Text(<<"B", "u", "d", "g", "e", "t">>)],
                 tone |-> "friendly", intent |-> "accept"]],
      [fn |-> "find_available_slots",
       args |-> [calendar_events |-> << [start |-> Iso(At(1, 9, 0)), end |-> Iso(At(1, 10, 0))] >>,
                 duration_minutes |-> 600,
                 start_date |-> Iso(At(1, 0, 0)), end_date |-> Iso(At(2, 0, 0)),
                 working_hours_start |-> 9, working_hours_end |-> 17]] }

\* the locals of a frame before the call has assigned any
NoLocals ==
    [i |-> 1, now |-> 0, prioritized |-> <<>>, filtered |-> <<>>,
     categories |-> NoCategories, sender_name |-> <<>>, start |-> 0, end |-> 0,
     busy_slots |-> <<>>, available_slots |-> <<>>, current |-> 0]

\* the locals of a call after the statements before its loop; clock is what
\* datetime.now() returns to it
BeginLocals(c, clock) ==
    LET a == c.args IN
    CASE c.fn = "prioritize_tasks" ->
            [NoLocals EXCEPT !.now = clock, !.prioritized = <<>>, !.i = 1]
      [] c.fn = "summarize_emails" ->
            [NoLocals EXCEPT !.filtered = FilterEmails(a.emails, a.filter_type),
                             !.categories = NoCategories, !.i = 1]
      [] c.fn = "draft_reply" ->
            [NoLocals EXCEPT !.sender_name = SenderName(a.email)]
      [] c.fn = "find_available_slots" ->
            [NoLocals EXCEPT !.start = FromIsoFormat(a.start_date),
                             !.end = FromIsoFormat(a.end_date),
                             !.busy_slots = BusySlots(a.calendar_events),
                             !.available_slots = <<>>,
                             !.current = FromIsoFormat(a.start_date)]

\* the loop of the call has another iteration
Running(c, loc) ==
    CASE c.fn = "prioritize_tasks" -> loc.i <= Len(c.args.tasks)
      [] c.fn = "summarize_emails" -> loc.i <= Len(loc.filtered)
      [] c.fn = "draft_reply" -> FALSE
      [] c.fn = "find_available_slots" ->
            LoopCond(loc.current, loc.end, loc.available_slots)

\* the locals after one iteration of the loop of the call
StepLocals(c, loc) ==
    LET a == c.args IN
    CASE c.fn = "prioritize_tasks" ->
            IF IsCompleted(a.tasks[loc.i])
            THEN [loc EXCEPT !.i = @ + 1]
            ELSE [loc EXCEPT !.i = @ + 1,
                             !.prioritized = Append(@, PrioritizedTask(a.tasks[loc.i], a.criteria, loc.now))]
      [] c.fn = "summarize_emails" ->
            [loc EXCEPT !.i = @ + 1,
                        !.categories[CategoryOf(loc.filtered[loc.i])] = Append(@, loc.filtered[loc.i])]
      [] c.fn = "find_available_slots" ->
            LET r == Iterate(loc.current, loc.available_slots, loc.busy_slots,
                             a.duration_minutes, a.working_hours_start, a.working_hours_end)
            IN [loc EXCEPT !.current = r.current, !.available_slots = r.slots]

\* what the call returns from its locals
ResultOf(c, loc) ==
    LET a == c.args IN
    CASE c.fn = "prioritize_tasks" -> SortByScore(loc.prioritized)
      [] c.fn = "summarize_emails" -> EmailSummary(loc.filtered, loc.categories)
      [] c.fn = "draft_reply" -> DraftReply(a.email, loc.sender_name, a.tone, a.intent)
      [] c.fn = "find_available_slots" -> loc.available_slots

\* no caller has begun, the global is None and no object exists
InitShared ==
    /\ scheduler = 0
    /\ instances = <<>>
    /\ frames \in {[k \in 1..MaxCallers |->
                        [pc |-> "start", agent |-> 0, call |-> f[k], given |-> f[k],
                         clock |-> 0, locals |-> NoLocals, result |-> [none |-> TRUE]]] :
                    f \in [1..MaxCallers -> CallPool]}
    /\ SlotIdle
    /\ TaskIdle
    /\ EmailIdle
    /\ DraftIdle

\* line 346: a caller tests the global
GetSchedulerTest ==
    \E k \in 1..MaxCallers :
        /\ frames[k].pc = "start"
        /\ frames' = [frames EXCEPT ![k].pc = IF scheduler = 0 THEN "construct" ELSE "return"]
        /\ UNCHANGED <<scheduler, instances>>
        /\ UNCHANGED <<slotVars, taskVars, emailVars, draftVars>>

\* line 347: a caller constructs a SchedulerAgent and stores it in the global
\* (the class has no __init__ and no attribute: the object has none)
GetSchedulerConstruct ==
    \E k \in 1..MaxCallers :
        /\ frames[k].pc = "construct"
        /\ instances' = Append(instances, {})
        /\ scheduler' = Len(instances) + 1
        /\ frames' = [frames EXCEPT ![k].pc = "return"]
        /\ UNCHANGED <<slotVars, taskVars, emailVars, draftVars>>

\* line 348: a caller gets the object the global holds now
GetSchedulerReturn ==
    \E k \in 1..MaxCallers :
        /\ frames[k].pc = "return"
        /\ frames' = [frames EXCEPT ![k].agent = scheduler, ![k].pc = "call"]
        /\ UNCHANGED <<scheduler, instances>>
        /\ UNCHANGED <<slotVars, taskVars, emailVars, draftVars>>

\* a caller calls its method on the object: the statements before the loop
MethodBegin ==
    \E k \in 1..MaxCallers :
        /\ frames[k].pc = "call"
        /\ \E clock \in (IF frames[k].call.fn = "prioritize_tasks" THEN TaskClock ELSE {0}) :
              frames' = IF frames[k].call.fn = "draft_reply"
                           /\ SenderNameRaises(frames[k].call.args.email)
                        THEN [frames EXCEPT ![k].pc = "raised"]
                        ELSE [frames EXCEPT ![k].clock = clock, ![k].pc = "run",
                                            ![FrameOf(k)].locals = BeginLocals(frames[k].call, clock)]
        /\ UNCHANGED <<scheduler, instances>>
        /\ UNCHANGED <<slotVars, taskVars, emailVars, draftVars>>

\* one iteration of the loop of the method
MethodStep ==
    \E k \in 1..MaxCallers :
        /\ frames[k].pc = "run"
        /\ Running(frames[k].call, frames[FrameOf(k)].locals)
        /\ frames' = [frames EXCEPT ![FrameOf(k)].locals =
                                       StepLocals(frames[k].call, frames[FrameOf(k)].locals)]
        /\ UNCHANGED <<scheduler, instances>>
        /\ UNCHANGED <<slotVars, taskVars, emailVars, draftVars>>

\* the method returns
MethodReturn ==
    \E k \in 1..MaxCallers :
        /\ frames[k].pc = "run"
        /\ ~Running(frames[k].call, frames[FrameOf(k)].locals)
        /\ frames' = [frames EXCEPT ![k].result = ResultOf(frames[k].call, frames[FrameOf(k)].locals),
                                    ![k].pc = "done"]
        /\ UNCHANGED <<scheduler, instances>>
        /\ UNCHANGED <<slotVars, taskVars, emailVars, draftVars>>

NextShared ==
    \/ GetSchedulerTest
    \/ GetSchedulerConstruct
    \/ GetSchedulerReturn
    \/ MethodBegin
    \/ MethodStep
    \/ MethodReturn

SpecShared == InitShared /\ [][NextShared]_vars

-----------------------------------------------------------------------------
(* Properties of concurrent calls *)

\* the categories of a list of emails, classified one after the other
RECURSIVE Categorise(_)
Categorise(list) ==
    IF list = <<>> THEN NoCategories
    ELSE LET before == Categorise(SubSeq(list, 1, Len(list) - 1))
             email == list[Len(list)]
         IN [before EXCEPT ![CategoryOf(email)] = Append(@, email)]

\* what a call returns when it runs alone with the clock reading given
Alone(c, clock) ==
    LET a == c.args IN
    CASE c.fn = "prioritize_tasks" -> PrioritizeTasks(a.tasks, a.criteria, clock)
      [] c.fn = "summarize_emails" ->
            EmailSummary(FilterEmails(a.emails, a.filter_type),
                         Categorise(FilterEmails(a.emails, a.filter_type)))
      [] c.fn = "draft_reply" ->
            DraftReply(a.email, SenderName(a.email), a.tone, a.intent)
      [] c.fn = "find_available_slots" ->
            FindAvailableSlots(a.calendar_events, a.duration_minutes,
                               FromIsoFormat(a.start_date), FromIsoFormat(a.end_date),
                               a.working_hours_start, a.working_hours_end)

\* C23: whatever the interleaving of the callers' steps, a call that has
\* returned has the result it has when run alone with the same arguments
\* and the same clock reading, a call raises only if it raises alone, the
\* arguments of every call are the ones it was given, and no SchedulerAgent
\* object has got an attribute.
C23_CallsDoNotInterfere ==
    /\ \A k \in DOMAIN frames :
          /\ frames[k].pc = "done" =>
                frames[k].result = Alone(frames[k].given, frames[k].clock)
          /\ frames[k].pc = "raised" =>
                (frames[k].given.fn = "draft_reply"
                 /\ SenderNameRaises(frames[k].given.args.email))
          /\ frames[k].call = frames[k].given
    /\ \A n \in DOMAIN instances : instances[n] = {}

\* two calls whose steps were interleaved have both returned, and
\* get_scheduler has constructed two objects
C23_Witness ==
    /\ frames # <<>>
    /\ frames[1].pc = "done" /\ frames[2].pc = "done"
    /\ frames[1].call.fn = "prioritize_tasks" /\ frames[2].call.fn = "prioritize_tasks"
    /\ frames[1].call # frames[2].call
    /\ Len(instances) = 2
    /\ frames[1].agent = frames[2].agent

-----------------------------------------------------------------------------
(* find_available_slots: the scan under fairness *)

MaxScanEvents == 1

\* events of every kind the scan tells apart: an ordinary one, one with
\* start after end, one of length zero, one that spans a weekend day
ScanEventPool ==
    { [start |-> Iso(At(1, 9, 0)), end |-> Iso(At(1, 10, 0))],
      [start |-> Iso(At(1, 10, 20)), end |-> Iso(At(1, 10, 10))],
      [start |-> Iso(At(1, 10, 15)), end |-> Iso(At(1, 10, 15))],
      [start |-> Iso(At(4, 9, 0)), end |-> Iso(At(5, 10, 0))] }

InitScan ==
    /\ calendar_events \in UNION {[1..n -> ScanEventPool] : n \in 0..MaxScanEvents}
    /\ duration_minutes \in {30, 600}
    /\ start_date \in {Iso(At(1, 0, 0)), Iso(At(4, 0, 0))}
    /\ end_date \in EndDates
    /\ \E wh \in WorkingHours \cup {<<9, 9>>} :
          working_hours_start = wh[1] /\ working_hours_end = wh[2]
    /\ now1 = 0 /\ now2 = 0 /\ start = 0 /\ end = 0
    /\ busy_slots = <<>> /\ available_slots = <<>> /\ current = 0
    /\ pc = "entry"
    /\ call = 1 /\ first_slots = <<>>
    /\ TaskIdle
    /\ EmailIdle
    /\ DraftIdle
    /\ SharedIdle

\* one call of find_available_slots
NextScan ==
    \/ Begin
    \/ SkipWeekend
    \/ SkipAfterHours
    \/ SkipBusy
    \/ EmitSlot
    \/ DropSlot
    \/ Return

\* a call that has started keeps running: the function has no suspension
\* point
SpecTerminates == InitScan /\ [][NextScan]_vars /\ WF_vars(NextScan)

-----------------------------------------------------------------------------
(* More properties of find_available_slots *)

\* the latest end among the busy slots the candidate conflicts with
LatestConflictEnd(cur, slot_end, busy) ==
    LET hits == {i \in 1..Len(busy) : ~(slot_end <= busy[i][1] \/ cur >= busy[i][2])}
    IN IF hits = {} THEN cur
       ELSE busy[CHOOSE i \in hits : \A j \in hits : busy[j][2] <= busy[i][2]][2]

\* an iteration of the loop that moves the cursor to the latest end among
\* the conflicting busy slots
IterateLatest(cur, slots, busy, dur, whs, whe) ==
    LET c == IF Hour(cur) < whs THEN ReplaceHourMinute(cur, whs) ELSE cur
        slot_end == c + dur
        latest == LatestConflictEnd(c, slot_end, busy)
    IN IF Weekday(cur) >= 5 \/ (Hour(cur) >= whs /\ Hour(cur) >= whe)
       THEN [current |-> ReplaceHourMinute(cur + Days(1), whs), slots |-> slots]
       ELSE IF \E i \in 1..Len(busy) : ~(slot_end <= busy[i][1] \/ c >= busy[i][2])
       THEN [current |-> latest, slots |-> slots]
       ELSE IF Hour(slot_end) <= whe
       THEN [current |-> slot_end, slots |-> Append(slots, Slot(c, slot_end, dur))]
       ELSE [current |-> slot_end, slots |-> slots]

RECURSIVE ScanLatest(_, _, _, _, _, _, _)
ScanLatest(cur, slots, busy, dur, e, whs, whe) ==
    IF ~(cur < e /\ Len(slots) < 10) THEN slots
    ELSE LET r == IterateLatest(cur, slots, busy, dur, whs, whe)
         IN ScanLatest(r.current, r.slots, busy, dur, e, whs, whe)

C25_SlotsInsideWindow ==
    (pc \in {"loop", "done"} /\ working_hours_start < working_hours_end) =>
        \A i \in 1..Len(available_slots) :
            /\ SlotStart(available_slots[i]) >= start
            /\ SlotEnd(available_slots[i]) <= end

\* C26: every iteration of the scan loop moves the cursor strictly forward,
\* and a call that is in its loop returns.
C26_Terminates ==
    /\ [][(pc = "loop" /\ pc' = "loop") => current' > current]_vars
    /\ (pc = "loop") ~> (pc = "done")

\* a call has returned whose calendar holds an event with start after end
\* and whose working hours start after they end
C26_Witness ==
    /\ pc = "done"
    /\ working_hours_start >= working_hours_end
    /\ \E k \in 1..Len(busy_slots) : busy_slots[k][1] > busy_slots[k][2]
    /\ current >= end

\* C27: with working hours that start before they end and without
\* start_date, the scan starts at working_hours_start:00 of the day of the
\* clock reading if its hour is before working_hours_start and of the next
\* day otherwise, the window ends 5 days later when end_date is
\* omitted too, and the scan start is never earlier than the clock reading,
\* also when the clock moves between the two reads.
C27_DefaultStartNotInPast ==
    (pc \in {"loop", "done"} /\ ~Truthy(start_date)
        /\ working_hours_start < working_hours_end) =>
        /\ start = (IF Hour(now2) < working_hours_start
                    THEN At(DayOf(now2), working_hours_start, 0)
                    ELSE At(DayOf(now2) + 1, working_hours_start, 0))
        /\ start >= now2
        /\ ~Truthy(end_date) => end = start + 5 * MinutesPerDay

====
